---- MODULE Spec2Model ----
(***************************************************************************)
(* Model of translator-scripts/find_untranslated.py: the recursive tree    *)
(* comparison find_untranslated_keys, the loader load_json_file and the    *)
(* reporting loop main.                                                    *)
(*                                                                         *)
(* A JSON value as json.load(..., object_pairs_hook=OrderedDict) builds it *)
(* is a record [shape, val, keys, items]:                                  *)
(*   shape "null" | "bool" | "num" | "str"   a scalar, val its payload     *)
(*         (bool: 0/1 as Python's int(b); num: the number; str: the code   *)
(*         of its text in a table of texts, so str 1 is not num 1)         *)
(*   shape "map"   an OrderedDict: keys[i] is the i-th key, items[i] its   *)
(*                 value, in insertion order                               *)
(*   shape "seq"   a list: items[i] the i-th element                       *)
(* A Python str (a key, a path) is the sequence of its characters.         *)
(***************************************************************************)
EXTENDS Integers, Sequences, FiniteSets, TLC

\* A document has at most MaxNodes nodes (its root mapping included), and the
\* reference and the target of one call at most MaxTotal nodes together.
MaxNodes == 4
MaxTotal == MaxNodes + 3
\* A directory holds at most MaxFiles target documents.
MaxFiles == 2

Null == [shape |-> "null", val |-> 0, keys |-> <<>>, items |-> <<>>]
Bool(b) == [shape |-> "bool", val |-> b, keys |-> <<>>, items |-> <<>>]
Num(n) == [shape |-> "num", val |-> n, keys |-> <<>>, items |-> <<>>]
Str(s) == [shape |-> "str", val |-> s, keys |-> <<>>, items |-> <<>>]
Dict(ks, vs) == [shape |-> "map", val |-> 0, keys |-> ks, items |-> vs]
List(vs) == [shape |-> "seq", val |-> 0, keys |-> <<>>, items |-> vs]

\* isinstance(v, dict), isinstance(v, list)
IsDict(v) == v.shape = "map"
IsList(v) == v.shape = "seq"
IsScalar(v) == v.shape \in {"null", "bool", "num", "str"}

\* The scalars and keys documents are drawn from: null, true, 1, and the text
\* with code 1; the empty key and the key "b".
Scalars == {Null, Bool(1), Num(1), Str(1)}
Keys == {<<>>, <<"b">>}

Min(a, b) == IF a <= b THEN a ELSE b

\* dict.get(key): the value at key, None when the key is absent (line 21).
Get(d, key) ==
  IF \E i \in 1..Len(d.keys) : d.keys[i] = key
  THEN d.items[CHOOSE i \in 1..Len(d.keys) : d.keys[i] = key]
  ELSE Null

\* Python's ==, as lines 30 and 33 apply it to two loaded values: bool is a
\* subclass of int, so True == 1; a str equals only a str, None only None;
\* lists are equal element by element; two OrderedDicts are equal when they
\* hold equal items in the same order.
RECURSIVE PyEq(_, _)
PyEq(a, b) ==
  IF a.shape \in {"bool", "num"} /\ b.shape \in {"bool", "num"} THEN a.val = b.val
  ELSE IF a.shape # b.shape THEN FALSE
  ELSE IF a.shape = "str" THEN a.val = b.val
  ELSE IF a.shape = "null" THEN TRUE
  ELSE /\ Len(a.items) = Len(b.items)
       /\ a.keys = b.keys
       /\ \A i \in 1..Len(a.items) : PyEq(a.items[i], b.items[i])

\* str(i) for i >= 0, as the f-string of line 27 formats the index.
Digit(d) == <<"0", "1", "2", "3", "4", "5", "6", "7", "8", "9">>[d + 1]
RECURSIVE StrInt(_)
StrInt(i) == IF i < 10 THEN <<Digit(i)>> ELSE StrInt(i \div 10) \o <<Digit(i % 10)>>

\* A path is the string the code builds (str) together with the position it
\* stands for (segs, a history field the code does not have: the mapping keys
\* and list indices followed from the root). A segment is a key (idx = -1) or
\* an index (key = <<>>).
KeySeg(key) == [key |-> key, idx |-> -1]
IdxSeg(i) == [key |-> <<>>, idx |-> i]
EmptyPath == [str |-> <<>>, segs |-> <<>>]

\* line 20: path = f"{prefix}.{key}" if prefix else key
KeyPath(prefix, key) ==
  [str |-> IF prefix.str # <<>> THEN prefix.str \o <<".">> \o key ELSE key,
   segs |-> Append(prefix.segs, KeySeg(key))]

\* line 27: item_path = f"{path}[{i}]"
ItemPath(path, i) ==
  [str |-> path.str \o <<"[">> \o StrInt(i) \o <<"]">>,
   segs |-> Append(path.segs, IdxSeg(i))]

\* en_dict.items() of line 19: the indices of the entries in insertion order.
ItemsReversed(d) == [i \in 1..Len(d.keys) |-> Len(d.keys) + 1 - i]
Items(d) == [i \in 1..Len(d.keys) |-> i]

\* zip(en_val, lang_val) of line 26: pairs up to the shorter list.
ZipLongest(a, b) ==
  [i \in 1..(IF Len(a) >= Len(b) THEN Len(a) ELSE Len(b)) |->
     <<IF i <= Len(a) THEN a[i] ELSE Null, IF i <= Len(b) THEN b[i] ELSE Null>>]
Zip(a, b) == [i \in 1..Min(Len(a), Len(b)) |-> <<a[i], b[i]>>]

RECURSIVE find_untranslated_keys(_, _, _)
RECURSIVE ListLoop(_, _, _)
RECURSIVE DictLoop(_, _, _, _, _)

\* lines 26-31, the iterations from the i-th pair on (i counts from 1, the
\* enumerate index is i - 1).
ListLoop(pairs, path, i) ==
  IF i > Len(pairs) THEN <<>>
  ELSE LET en_item == pairs[i][1]
           lang_item == pairs[i][2]
           item_path == ItemPath(path, i - 1)
           here == IF IsDict(en_item) /\ IsDict(lang_item)
                   THEN find_untranslated_keys(en_item, lang_item, item_path)
                   ELSE IF PyEq(en_item, lang_item) THEN <<item_path>> ELSE <<>>
       IN here \o ListLoop(pairs, path, i + 1)

\* lines 19-34, the iterations from the k-th entry of order on.
DictLoop(en_dict, lang_dict, prefix, order, k) ==
  IF k > Len(order) THEN <<>>
  ELSE LET key == en_dict.keys[order[k]]
           en_val == en_dict.items[order[k]]
           path == KeyPath(prefix, key)
           lang_val == Get(lang_dict, key)
           here == IF IsDict(en_val) /\ IsDict(lang_val)
                   THEN find_untranslated_keys(en_val, lang_val, path)
                   ELSE IF IsList(en_val) /\ IsList(lang_val)
                   THEN ListLoop(Zip(en_val.items, lang_val.items), path, 1)
                   ELSE IF PyEq(lang_val, en_val) THEN <<path>> ELSE <<>>
       IN here \o DictLoop(en_dict, lang_dict, prefix, order, k + 1)

\* lines 13-35
find_untranslated_keys(en_dict, lang_dict, prefix) ==
  DictLoop(en_dict, lang_dict, prefix, Items(en_dict), 1)

(***************************************************************************)
(* The documents the inputs are drawn from.                                *)
(***************************************************************************)
\* Sequences of n distinct keys.
KeySeqs(n) == {ks \in [1..n -> Keys] : \A i, j \in 1..n : ks[i] = ks[j] => i = j}

\* GenUpTo(n)[k + 1], for k in 0..n, is the record of
\*   trees: the values of exactly k nodes,
\*   lists: the sequences of values of k nodes in all.
GenRow(prev, n) ==
  LET below == prev[n].lists
      tr == (IF n = 1 THEN Scalars ELSE {})
            \cup {List(l) : l \in below}
            \cup UNION {{Dict(ks, l) : ks \in KeySeqs(Len(l))} : l \in below}
      ls == UNION {{<<t>> \o r : t \in (IF k = n THEN tr ELSE prev[k + 1].trees),
                                 r \in prev[n - k + 1].lists} : k \in 1..n}
  IN [trees |-> tr, lists |-> ls]
GenExtend(prev) == Append(prev, GenRow(prev, Len(prev)))
RECURSIVE GenUpTo(_)
GenUpTo(n) ==
  IF n = 0 THEN <<[trees |-> {}, lists |-> {<<>>}]>> ELSE GenExtend(GenUpTo(n - 1))

\* A document of n nodes is a mapping over a list of n - 1 nodes.
Gen == GenUpTo(MaxNodes - 1)

\* Docs[n]: the documents of exactly n nodes whose root is a mapping.
RECURSIVE DocsUpTo(_)
DocsUpTo(n) ==
  IF n = 0 THEN <<>>
  ELSE Append(DocsUpTo(n - 1),
              UNION {{Dict(ks, l) : ks \in KeySeqs(Len(l))} : l \in Gen[n].lists})
Docs == DocsUpTo(MaxNodes)

(***************************************************************************)
(* Files. A file is readable JSON text (why = "ok", doc the value          *)
(* json.load builds from it), or it cannot be opened, or it is not JSON.   *)
(***************************************************************************)
File(doc) == [why |-> "ok", doc |-> doc]
Unreadable == [why |-> "unreadable", doc |-> Null]
Malformed == [why |-> "malformed", doc |-> Null]

\* lines 5-11: the loaded value, None when open or json.load raises. The
\* JSON text null loads as None too.
load_json_file(file) == IF file.why = "ok" THEN file.doc ELSE Null

\* The file names and file contents main is run on.
en_json == <<"e", "n", ".", "j", "s", "o", "n">>
fr_json == <<"f", "r", ".", "j", "s", "o", "n">>
de_json == <<"d", "e", ".", "j", "s", "o", "n">>
notes_txt == <<"n", "o", "t", "e", "s", ".", "t", "x", "t">>
Names == {en_json, fr_json, de_json, notes_txt}
FileContents ==
  {Unreadable, Malformed}
    \cup {File(d) : d \in {Null, Num(1), List(<<>>), Dict(<<>>, <<>>),
                           Dict(<<<<"b">>>>, <<Str(1)>>), Dict(<<<<"b">>>>, <<Num(1)>>)}}

\* The listings os.listdir can return for a directory of at most n files.
RECURSIVE Listings(_)
Listings(n) ==
  IF n = 0 THEN {<<>>}
  ELSE LET shorter == Listings(n - 1)
       IN shorter \cup
          {Append(l, [fname |-> f, file |-> c]) :
             l \in {x \in shorter : Len(x) = n - 1}, f \in Names, c \in FileContents}

DistinctNames(l) == \A i, j \in 1..Len(l) : l[i].fname = l[j].fname => i = j

\* fname.endswith('.json') and fname != 'en.json' (line 45)
EndsWithJson(fname) ==
  /\ Len(fname) >= 5
  /\ SubSeq(fname, Len(fname) - 4, Len(fname)) = <<".", "j", "s", "o", "n">>
IsTarget(fname) == EndsWithJson(fname) /\ fname # en_json

\* fname[:-5] (line 46)
LangCode(fname) == SubSeq(fname, 1, Len(fname) - 5)

\* Line 52 raises AttributeError when en_data has no items(), or when the
\* loop of line 19 runs at least once and lang_data has no get().
Raises(en, lang) == ~IsDict(en) \/ (Len(en.keys) > 0 /\ ~IsDict(lang))

\* The strings of a list of paths, as main prints them.
Strs(paths) == [i \in 1..Len(paths) |-> paths[i].str]

\* en_file: the content of en.json;  dir: the listing of LANG_DIR;
\* idx: the position of the for loop of line 44 in dir;  en_data, lang_data,
\* untranslated: the locals of main;  out: the lines printed so far;
\* pc: the line main is at.
VARIABLES en_file, dir, idx, en_data, lang_data, untranslated, out, pc

vars == <<en_file, dir, idx, en_data, lang_data, untranslated, out, pc>>

Line(kind, name, keys) == [line |-> kind, name |-> name, keys |-> keys]

\* A call of find_untranslated_keys (line 52) on two mapping-rooted
\* documents: main has loaded both and is about to compare them.
Init ==
  /\ LET docs == Docs
     IN \E n \in 1..MaxNodes : \E m \in 1..Min(MaxNodes, MaxTotal - n) :
          /\ en_data \in docs[n]
          /\ lang_data \in docs[m]
  /\ en_file = File(en_data)
  /\ dir = <<[fname |-> fr_json, file |-> File(lang_data)]>>
  /\ idx = 1
  /\ untranslated = <<>>
  /\ out = <<>>
  /\ pc = "call"

\* The same call on a document and an identical copy of it.
InitIdentity ==
  /\ LET docs == Docs
     IN \E n \in 1..MaxNodes : en_data \in docs[n]
  /\ lang_data = en_data
  /\ en_file = File(en_data)
  /\ dir = <<[fname |-> fr_json, file |-> File(lang_data)]>>
  /\ idx = 1
  /\ untranslated = <<>>
  /\ out = <<>>
  /\ pc = "call"

\* main is started on a directory.
InitMain ==
  /\ en_file \in FileContents
  /\ dir \in {l \in Listings(MaxFiles) : DistinctNames(l)}
  /\ idx = 0
  /\ en_data = Null
  /\ lang_data = Null
  /\ untranslated = <<>>
  /\ out = <<>>
  /\ pc = "start"

\* lines 39-43
LoadEn ==
  /\ pc = "start"
  /\ en_data' = load_json_file(en_file)
  /\ out' = out
            \o (IF en_file.why # "ok" THEN <<Line("error_loading", en_json, <<>>)>> ELSE <<>>)
            \o (IF en_data' = Null THEN <<Line("could_not_load_en", en_json, <<>>)>> ELSE <<>>)
  /\ pc' = IF en_data' = Null THEN "done" ELSE "loop"
  /\ UNCHANGED <<en_file, dir, idx, lang_data, untranslated>>

\* lines 44-45: the next name of the listing, if any, and the filter on it
NextFile ==
  /\ pc = "loop"
  /\ IF idx = Len(dir)
     THEN pc' = "done" /\ idx' = idx
     ELSE /\ idx' = idx + 1
          /\ pc' = IF IsTarget(dir[idx + 1].fname) THEN "load" ELSE "loop"
  /\ UNCHANGED <<en_file, dir, en_data, lang_data, untranslated, out>>

\* lines 46-51
LoadLang ==
  /\ pc = "load"
  /\ lang_data' = load_json_file(dir[idx].file)
  /\ out' = out
            \o (IF dir[idx].file.why # "ok"
                THEN <<Line("error_loading", dir[idx].fname, <<>>)>> ELSE <<>>)
            \o (IF lang_data' = Null
                THEN <<Line("skipping", dir[idx].fname, <<>>)>> ELSE <<>>)
  /\ pc' = IF lang_data' = Null THEN "loop" ELSE "call"
  /\ UNCHANGED <<en_file, dir, idx, en_data, untranslated>>

\* line 52; an exception raised there is caught nowhere and ends main
Diff ==
  /\ pc = "call"
  /\ IF Raises(en_data, lang_data)
     THEN pc' = "crashed" /\ UNCHANGED untranslated
     ELSE /\ untranslated' = find_untranslated_keys(en_data, lang_data, EmptyPath)
          /\ pc' = "returned"
  /\ UNCHANGED <<en_file, dir, idx, en_data, lang_data, out>>

\* lines 53-58
Report ==
  /\ pc = "returned"
  /\ out' = Append(out, IF untranslated # <<>>
                        THEN Line("untranslated", LangCode(dir[idx].fname), Strs(untranslated))
                        ELSE Line("all_translated", LangCode(dir[idx].fname), <<>>))
  /\ pc' = "loop"
  /\ UNCHANGED <<en_file, dir, idx, en_data, lang_data, untranslated>>

\* One call of the differ.
Next == Diff

Spec == Init /\ [][Next]_vars

SpecIdentity == InitIdentity /\ [][Next]_vars

\* A run of main.
NextMain == LoadEn \/ NextFile \/ LoadLang \/ Diff \/ Report

SpecMain == InitMain /\ [][NextMain]_vars

(***************************************************************************)
(* Positions. The properties below speak of the node a Finding stands      *)
(* for, which they read from its segs, and of the nodes the two documents  *)
(* hold there.                                                             *)
(***************************************************************************)
HasKey(d, key) == \E i \in 1..Len(d.keys) : d.keys[i] = key
KeyIndex(d, key) == CHOOSE i \in 1..Len(d.keys) : d.keys[i] = key
Absent == [ok |-> FALSE, node |-> Null]

\* The node of document t at position segs, if t has one there.
RECURSIVE NodeAt(_, _)
NodeAt(t, segs) ==
  IF segs = <<>> THEN [ok |-> TRUE, node |-> t]
  ELSE LET s == Head(segs)
       IN IF s.idx = -1
          THEN IF IsDict(t) /\ HasKey(t, s.key)
               THEN NodeAt(t.items[KeyIndex(t, s.key)], Tail(segs))
               ELSE Absent
          ELSE IF IsList(t) /\ s.idx < Len(t.items)
               THEN NodeAt(t.items[s.idx + 1], Tail(segs))
               ELSE Absent

Prefix(segs, j) == SubSeq(segs, 1, j)

\* The positions of the scalar leaves of t, t being at position at.
RECURSIVE ScalarLeaves(_, _)
ScalarLeaves(t, at) ==
  IF IsScalar(t) THEN {at}
  ELSE UNION {ScalarLeaves(t.items[i],
                           Append(at, IF IsDict(t) THEN KeySeg(t.keys[i]) ELSE IdxSeg(i - 1))) :
              i \in 1..Len(t.items)}

\* The positions of the Findings returned.
Flagged == {untranslated[i].segs : i \in 1..Len(untranslated)}

\* Position s1 is met before position s2 in the depth-first traversal of t
\* that follows each mapping's key order and each sequence's index order.
RECURSIVE Before(_, _, _)
Before(t, s1, s2) ==
  IF s1 = <<>> THEN s2 # <<>>
  ELSE IF s2 = <<>> THEN FALSE
  ELSE IF Head(s1) = Head(s2)
       THEN Before(NodeAt(t, <<Head(s1)>>).node, Tail(s1), Tail(s2))
       ELSE IF Head(s1).idx = -1
            THEN KeyIndex(t, Head(s1).key) < KeyIndex(t, Head(s2).key)
            ELSE Head(s1).idx < Head(s2).idx

\* The rendering of a position: mapping keys joined with ".", an index as
\* "[i]" right after the segment before it.
RECURSIVE Render(_)
Render(segs) ==
  IF segs = <<>> THEN <<>>
  ELSE LET n == Len(segs)
           s == segs[n]
       IN IF s.idx # -1 THEN Render(Prefix(segs, n - 1)) \o <<"[">> \o StrInt(s.idx) \o <<"]">>
          ELSE IF n = 1 THEN s.key
          ELSE Render(Prefix(segs, n - 1)) \o <<".">> \o s.key

(***************************************************************************)
(* The claims.                                                             *)
(***************************************************************************)

\* C1: when the target mapping at a visited position omits a key the
\* reference mapping has, no Finding is returned for the path of that key or
\* for a path below it.
C1_MissingKeyNeverFlagged ==
  pc = "returned" =>
    \A f \in Flagged : \A j \in 1..Len(f) :
      LET parent == NodeAt(lang_data, Prefix(f, j - 1))
      IN (f[j].idx = -1 /\ parent.ok /\ IsDict(parent.node)) => HasKey(parent.node, f[j].key)

\* C2: when every leaf scalar of the reference differs from the value at the
\* same position of the target (or the target has no value there), the result
\* is empty.
C2_FullTranslationIsEmpty ==
  (/\ pc = "returned"
   /\ \A p \in ScalarLeaves(en_data, <<>>) :
        LET t == NodeAt(lang_data, p)
        IN ~t.ok \/ t.node # NodeAt(en_data, p).node)
  => untranslated = <<>>

\* C3: a document compared with an identical copy has every one of its
\* scalar leaves returned, those inside a sequence nested in a sequence too.
C3_IdentityFlagsEveryLeaf ==
  (pc = "returned" /\ lang_data = en_data) => ScalarLeaves(en_data, <<>>) \subseteq Flagged

\* C4: the returned list holds no rendered path string twice.
C4_NoDuplicatePath ==
  pc = "returned" =>
    \A i, j \in 1..Len(untranslated) : untranslated[i].str = untranslated[j].str => i = j

\* C5: once main has ended on a loaded reference mapping, every target
\* document of the directory has exactly one outcome printed: skipped as not
\* loadable, untranslated keys, or all keys translated.
Outcomes(name) ==
  {i \in 1..Len(out) :
     \/ out[i].line = "skipping" /\ out[i].name = name
     \/ out[i].line \in {"untranslated", "all_translated"} /\ out[i].name = LangCode(name)}
C5_FailureIsLocal ==
  (pc \in {"done", "crashed"} /\ IsDict(en_data)) =>
    \A i \in 1..Len(dir) : IsTarget(dir[i].fname) => Cardinality(Outcomes(dir[i].fname)) = 1

\* C6: no Finding is returned at or below a position where the reference
\* node and the target node have different shapes or are scalars of
\* different types.
C6_MismatchNeverFlagged ==
  pc = "returned" =>
    \A f \in Flagged : \A j \in 1..Len(f) :
      LET r == NodeAt(en_data, Prefix(f, j))
          t == NodeAt(lang_data, Prefix(f, j))
      IN (r.ok /\ t.ok) => r.node.shape = t.node.shape

\* C7: when a reference sequence is paired with a target sequence, no
\* Finding is returned for an index at or beyond the length of the shorter
\* one, or for a path below such an index.
C7_LengthAsymmetry ==
  pc = "returned" =>
    \A f \in Flagged : \A j \in 1..Len(f) :
      LET r == NodeAt(en_data, Prefix(f, j - 1))
          t == NodeAt(lang_data, Prefix(f, j - 1))
      IN (f[j].idx # -1 /\ r.ok /\ IsList(r.node) /\ t.ok /\ IsList(t.node))
           => f[j].idx < Min(Len(r.node.items), Len(t.node.items))

\* C7 witness: a reference sequence longer than the non-empty target
\* sequence it is paired with, whose first element beyond the target's length
\* repeats its first element, and that first element is flagged.
C7_Witness ==
  /\ pc = "returned"
  /\ \E k \in 1..Len(en_data.keys) :
       LET key == en_data.keys[k]
           r == en_data.items[k]
           t == NodeAt(lang_data, <<KeySeg(key)>>)
       IN /\ IsList(r) /\ t.ok /\ IsList(t.node)
          /\ Len(t.node.items) >= 1
          /\ Len(r.items) > Len(t.node.items)
          /\ r.items[Len(t.node.items) + 1] = r.items[1]
          /\ <<KeySeg(key), IdxSeg(0)>> \in Flagged

C9_NoFindingAtContainerPair ==
  pc = "returned" =>
    \A f \in Flagged :
      LET r == NodeAt(en_data, f)
          t == NodeAt(lang_data, f)
      IN ~(r.ok /\ t.ok /\ r.node.shape = t.node.shape /\ r.node.shape \in {"map", "seq"})

\* C10: every Finding is the rendering of the segments from the root to the
\* flagged node: keys joined with ".", indices as "[i]" with no separator.
C10_PathRendering ==
  pc = "returned" =>
    \A i \in 1..Len(untranslated) : untranslated[i].str = Render(untranslated[i].segs)

====
